---- MODULE Spec2Model ----
(***************************************************************************)
(* The request handlers of blogicum/blog/views.py as a state machine.      *)
(* The state is the data store (posts, comments, user profiles), the clock *)
(* and the request being answered with its response.  Every view is an     *)
(* operator from the current store and a request to the new store and the  *)
(* response; one action per view applies it to every request of the view.  *)
(***************************************************************************)
EXTENDS Integers, Sequences, FiniteSets, TLC

\* ---------------------------------------------------------------- bounds
MaxPosts == 2
MaxComments == 1
MaxTime == 1

\* ------------------------------------------------------------ populations
Users == {"u1", "u2"}
AnonymousUser == "anonymous"
Requesters == Users \cup {AnonymousUser}
Usernames == {"alice", "bob", "carol"}
InitialUsername == [u \in Users |-> IF u = "u1" THEN "alice" ELSE "bob"]

\* Category rows are read-only from the views: slug |-> is_published.
Categories == [news |-> TRUE, drafts |-> FALSE]
Slugs == DOMAIN Categories
SlugArgs == Slugs \cup {"missing"}

PostIdArgs == 1..MaxPosts
CommentIdArgs == 1..MaxComments
Times == 0..MaxTime
Texts == {"t1", "t2"}

\* The store (posts, comments, usernames and the id sequences of the two
\* tables), the clock, the request being answered with its response, and the
\* store as that request found it.
VARIABLES posts, post_seq, comments, comment_seq, usernames, now, req, resp, before
vars == <<posts, post_seq, comments, comment_seq, usernames, now, req, resp, before>>

\* ------------------------------------------------------- requests, responses
\* request.POST: one value per key; "" / -1 stand for a key that is absent.
EmptyPOST ==
    [text |-> "", category |-> "", is_published |-> FALSE, pub_date |-> -1,
     author |-> "", username |-> ""]

PostData(text, category, is_published, pub_date, author) ==
    [EmptyPOST EXCEPT !.text = text, !.category = category,
                      !.is_published = is_published, !.pub_date = pub_date,
                      !.author = author]

CommentData(text) == [EmptyPOST EXCEPT !.text = text]

ProfileData(username) == [EmptyPOST EXCEPT !.username = username]

\* The submissions a client sends to the post form: a visible post, the
\* three ways of being hidden, a forged author key, and an invalid one.
PostSubmissions ==
    { PostData("t1", "news", TRUE, 0, ""),
      PostData("t2", "news", FALSE, 0, ""),
      PostData("t2", "drafts", TRUE, 0, ""),
      PostData("t2", "news", TRUE, MaxTime, ""),
      PostData("t1", "news", TRUE, 0, "u1"),
      PostData("", "news", TRUE, 0, "") }

CommentSubmissions == { CommentData(t) : t \in Texts } \cup { EmptyPOST }

ProfileSubmissions == { ProfileData("alice"), ProfileData("carol"), EmptyPOST }

NoRequest ==
    [view |-> "none", user |-> AnonymousUser, method |-> "GET", post_id |-> 0,
     comment_id |-> 0, name |-> "", POST |-> EmptyPOST]

Request(view, user, method, post_id, comment_id, name, data) ==
    [view |-> view, user |-> user, method |-> method, post_id |-> post_id,
     comment_id |-> comment_id, name |-> name,
     POST |-> IF method = "POST" THEN data ELSE EmptyPOST]

NoForm == [is_bound |-> FALSE, is_valid |-> FALSE]

NoResponse ==
    [status |-> "none", template |-> "", to |-> "", arg_id |-> 0, arg_name |-> "",
     post_list |-> {}, comment_list |-> <<>>, form |-> NoForm]

\* render(request, template, context)
render(template, post_list, comment_list, form) ==
    [NoResponse EXCEPT !.status = "render", !.template = template,
                       !.post_list = post_list, !.comment_list = comment_list,
                       !.form = form]

\* redirect('blog:post_detail', post_id), redirect('blog:index')
redirect(to, arg_id) ==
    [NoResponse EXCEPT !.status = "redirect", !.to = to, !.arg_id = arg_id]

\* redirect('blog:profile', request.user): the argument is str(user), the username
redirect_profile(username) ==
    [NoResponse EXCEPT !.status = "redirect", !.to = "blog:profile",
                       !.arg_name = username]

\* get_object_or_404 raising Http404
Http404 == [NoResponse EXCEPT !.status = "not_found"]

\* @login_required answering an anonymous request
LoginRedirect == redirect("login", 0)

\* ------------------------------------------------------------------ store
EmptyTable == [i \in {} |-> 0]

NoStore == [posts |-> EmptyTable, comments |-> EmptyTable, usernames |-> InitialUsername]

Init ==
    /\ posts = EmptyTable
    /\ post_seq = 1
    /\ comments = EmptyTable
    /\ comment_seq = 1
    /\ usernames = InitialUsername
    /\ now = 0
    /\ req = NoRequest
    /\ resp = NoResponse
    /\ before = NoStore

\* The outcome of a view: the store it leaves and the response it returns.
Outcome(p, ps, c, cs, un, response) ==
    [posts |-> p, post_seq |-> ps, comments |-> c, comment_seq |-> cs,
     usernames |-> un, response |-> response]

\* A view that returns without a save() or delete().
ReadOnly(response) ==
    Outcome(posts, post_seq, comments, comment_seq, usernames, response)

\* Model.save() of a new row: the next id of the table's sequence.
Insert(table, id, row) ==
    [i \in DOMAIN table \cup {id} |-> IF i = id THEN row ELSE table[i]]

\* Model.delete() of one row.
Remove(table, id) == [i \in DOMAIN table \ {id} |-> table[i]]

\* post.delete(): the comments hold an owning reference to their post and go
\* with it.
CommentsOfDeletedPost(post_id) ==
    { c \in DOMAIN comments : comments[c].post = post_id }

PostDelete(post_id) ==
    [posts |-> Remove(posts, post_id),
     comments |-> [c \in DOMAIN comments \ CommentsOfDeletedPost(post_id)
                     |-> comments[c]]]

\* ---------------------------------------------------------- blog.utils
\* The default visibility filter: published, category published, not
\* future-dated.
IsVisible(post) ==
    /\ post.is_published
    /\ Categories[post.category]
    /\ post.pub_date <= now

\* query_post(manager=Post.objects, filters=True): the ids of the manager's
\* posts, restricted to the visible ones when filters is set.
query_post(manager, filters) ==
    { i \in manager : filters => IsVisible(posts[i]) }

\* ---------------------------------------------------------- blog.forms
\* Form(data): bound unless data is None; `request.POST or None` is None
\* exactly for an empty submission.
OrNone(data) == data # EmptyPOST

PostFormValid(data) ==
    /\ data.text \in Texts
    /\ data.category \in Slugs
    /\ data.pub_date \in Times

\* PostForm(data, instance=post).save(commit=False): the form's fields
\* written over the instance; the author is not a field of the form.
PostFormSave(data, instance) ==
    [instance EXCEPT !.text = data.text, !.category = data.category,
                     !.is_published = data.is_published,
                     !.pub_date = data.pub_date]

NewPost ==
    [author |-> "", text |-> "", category |-> "", is_published |-> FALSE,
     pub_date |-> -1]

CommentFormValid(data) == data.text \in Texts

CommentFormSave(data, instance) == [instance EXCEPT !.text = data.text]

NewComment == [post |-> 0, author |-> "", text |-> ""]

\* ProfileForm: the username is required and unique among the other users.
ProfileFormValid(data, user) ==
    /\ data.username \in Usernames
    /\ \A u \in Users \ {user} : usernames[u] # data.username

Form(is_bound, is_valid) == [is_bound |-> is_bound, is_valid |-> is_bound /\ is_valid]

\* ------------------------------------------------------- rendered context
PostList(ids) == { [id |-> i, post |-> posts[i]] : i \in ids }

MinOf(S) == CHOOSE m \in S : \A n \in S : m <= n

RECURSIVE Ascending(_)
Ascending(S) == IF S = {} THEN <<>> ELSE <<MinOf(S)>> \o Ascending(S \ {MinOf(S)})

\* post.comments.order_by('created_at'): created_at is set on insertion, so
\* the order of creation is the order of the ids.
CommentList(post_id) ==
    LET ids == Ascending({ c \in DOMAIN comments : comments[c].post = post_id })
    IN  [k \in 1..Len(ids) |-> [id |-> ids[k], comment |-> comments[ids[k]]]]

\* @login_required
login_required(request, outcome) ==
    IF request.user = AnonymousUser THEN ReadOnly(LoginRedirect) ELSE outcome

\* ------------------------------------------------------------------ views
index(request) ==
    ReadOnly(render("blog/index.html",
                    PostList(query_post(DOMAIN posts, TRUE)), <<>>, NoForm))

category_posts(request, category_slug) ==
    IF ~(category_slug \in Slugs /\ Categories[category_slug])
    THEN ReadOnly(Http404)
    ELSE LET category_posts_manager ==
                 { i \in DOMAIN posts : posts[i].category = category_slug }
         IN  ReadOnly(render("blog/category.html",
                             PostList(query_post(category_posts_manager, TRUE)),
                             <<>>, NoForm))

\* Mutant: the restrictive query for every requester, the author included.
post_detail_filtered_for_all(request, post_id) ==
    IF post_id \notin query_post(DOMAIN posts, TRUE)
    THEN ReadOnly(Http404)
    ELSE ReadOnly(render("blog/detail.html", PostList({post_id}),
                         CommentList(post_id), NoForm))

post_detail(request, post_id) ==
    IF post_id \notin DOMAIN posts
    THEN ReadOnly(Http404)
    ELSE IF /\ posts[post_id].author # request.user
            /\ post_id \notin query_post(DOMAIN posts, TRUE)
    THEN ReadOnly(Http404)
    ELSE ReadOnly(render("blog/detail.html", PostList({post_id}),
                         CommentList(post_id), NoForm))

\* Mutant: the author is taken from the submission when it names one.
create_post_author_from_data(request) ==
    login_required(request,
        LET form == Form(OrNone(request.POST), PostFormValid(request.POST))
        IN  IF form.is_valid
            THEN LET post == [PostFormSave(request.POST, NewPost)
                                  EXCEPT !.author =
                                      IF request.POST.author \in Users
                                      THEN request.POST.author
                                      ELSE request.user]
                 IN  Outcome(Insert(posts, post_seq, post), post_seq + 1,
                             comments, comment_seq, usernames,
                             redirect_profile(usernames[request.user]))
            ELSE ReadOnly(render("blog/create.html", {}, <<>>, form)))

\* Mutant: every new post is saved as published.
create_post_publishes(request) ==
    login_required(request,
        LET form == Form(OrNone(request.POST), PostFormValid(request.POST))
        IN  IF form.is_valid
            THEN LET post == [PostFormSave(request.POST, NewPost)
                                  EXCEPT !.author = request.user,
                                         !.is_published = TRUE]
                 IN  Outcome(Insert(posts, post_seq, post), post_seq + 1,
                             comments, comment_seq, usernames,
                             redirect_profile(usernames[request.user]))
            ELSE ReadOnly(render("blog/create.html", {}, <<>>, form)))

create_post(request) ==
    login_required(request,
        LET form == Form(OrNone(request.POST), PostFormValid(request.POST))
        IN  IF form.is_valid
            THEN LET post == [PostFormSave(request.POST, NewPost)
                                  EXCEPT !.author = request.user]
                 IN  Outcome(Insert(posts, post_seq, post), post_seq + 1,
                             comments, comment_seq, usernames,
                             redirect_profile(usernames[request.user]))
            ELSE ReadOnly(render("blog/create.html", {}, <<>>, form)))

\* Mutant: the author check is missing.
edit_post_any_user(request, post_id) ==
    login_required(request,
        IF post_id \notin DOMAIN posts
        THEN ReadOnly(Http404)
        ELSE LET form == Form(OrNone(request.POST), PostFormValid(request.POST))
             IN  IF form.is_valid
                 THEN Outcome([posts EXCEPT ![post_id] =
                                   PostFormSave(request.POST, posts[post_id])],
                              post_seq, comments, comment_seq, usernames,
                              redirect("blog:post_detail", post_id))
                 ELSE ReadOnly(render("blog/create.html", PostList({post_id}),
                                      <<>>, form)))

edit_post(request, post_id) ==
    login_required(request,
        IF post_id \notin DOMAIN posts
        THEN ReadOnly(Http404)
        ELSE IF request.user # posts[post_id].author
        THEN ReadOnly(redirect("blog:post_detail", post_id))
        ELSE LET form == Form(OrNone(request.POST), PostFormValid(request.POST))
             IN  IF form.is_valid
                 THEN Outcome([posts EXCEPT ![post_id] =
                                   PostFormSave(request.POST, posts[post_id])],
                              post_seq, comments, comment_seq, usernames,
                              redirect("blog:post_detail", post_id))
                 ELSE ReadOnly(render("blog/create.html", PostList({post_id}),
                                      <<>>, form)))

\* Mutant: the post is deleted whatever the request's method.
delete_post_on_get(request, post_id) ==
    login_required(request,
        IF post_id \notin DOMAIN posts
        THEN ReadOnly(Http404)
        ELSE IF request.user # posts[post_id].author
        THEN ReadOnly(redirect("blog:post_detail", post_id))
        ELSE Outcome(PostDelete(post_id).posts, post_seq,
                     PostDelete(post_id).comments, comment_seq, usernames,
                     redirect("blog:index", 0)))

delete_post(request, post_id) ==
    login_required(request,
        IF post_id \notin DOMAIN posts
        THEN ReadOnly(Http404)
        ELSE IF request.user # posts[post_id].author
        THEN ReadOnly(redirect("blog:post_detail", post_id))
        ELSE IF request.method = "POST"
        THEN Outcome(PostDelete(post_id).posts, post_seq,
                     PostDelete(post_id).comments, comment_seq, usernames,
                     redirect("blog:index", 0))
        ELSE ReadOnly(render("blog/create.html", PostList({post_id}), <<>>,
                             NoForm)))

\* Mutant: the visibility filter is never applied.
profile_unfiltered(request, username) ==
    IF \A u \in Users : usernames[u] # username
    THEN ReadOnly(Http404)
    ELSE LET profile_user == CHOOSE u \in Users : usernames[u] = username
             profile_posts == { i \in DOMAIN posts : posts[i].author = profile_user }
         IN  ReadOnly(render("blog/profile.html",
                             PostList(query_post(profile_posts, FALSE)),
                             <<>>, NoForm))

profile(request, username) ==
    IF \A u \in Users : usernames[u] # username
    THEN ReadOnly(Http404)
    ELSE LET profile_user == CHOOSE u \in Users : usernames[u] = username
             profile_posts == { i \in DOMAIN posts : posts[i].author = profile_user }
         IN  ReadOnly(render("blog/profile.html",
                             PostList(query_post(profile_posts,
                                                 profile_user # request.user)),
                             <<>>, NoForm))

\* Mutant: the form is bound to `request.POST or None`, as in the other views.
edit_profile_or_none(request) ==
    login_required(request,
        LET form == Form(OrNone(request.POST),
                         ProfileFormValid(request.POST, request.user))
        IN  IF form.is_valid
            THEN Outcome(posts, post_seq, comments, comment_seq,
                         [usernames EXCEPT ![request.user] = request.POST.username],
                         redirect_profile(request.POST.username))
            ELSE ReadOnly(render("blog/user.html", {}, <<>>, form)))

edit_profile(request) ==
    login_required(request,
        LET form == Form(TRUE, ProfileFormValid(request.POST, request.user))
        IN  IF form.is_valid
            THEN Outcome(posts, post_seq, comments, comment_seq,
                         [usernames EXCEPT ![request.user] = request.POST.username],
                         redirect_profile(request.POST.username))
            ELSE ReadOnly(render("blog/user.html", {}, <<>>, form)))

\* Mutant: an invalid comment form is shown again instead of redirecting.
add_comment_shows_errors(request, post_id) ==
    login_required(request,
        IF post_id \notin DOMAIN posts
        THEN ReadOnly(Http404)
        ELSE LET form == Form(OrNone(request.POST), CommentFormValid(request.POST))
             IN  IF form.is_valid
                 THEN LET comment == [CommentFormSave(request.POST, NewComment)
                                          EXCEPT !.post = post_id,
                                                 !.author = request.user]
                      IN  Outcome(posts, post_seq,
                                  Insert(comments, comment_seq, comment),
                                  comment_seq + 1, usernames,
                                  redirect("blog:post_detail", post_id))
                 ELSE ReadOnly(render("blog/detail.html", PostList({post_id}),
                                      CommentList(post_id), form)))

\* Mutant: the post is looked up as post_detail looks it up.
add_comment_visible_only(request, post_id) ==
    login_required(request,
        IF post_id \notin DOMAIN posts
        THEN ReadOnly(Http404)
        ELSE IF /\ posts[post_id].author # request.user
                /\ post_id \notin query_post(DOMAIN posts, TRUE)
        THEN ReadOnly(Http404)
        ELSE LET form == Form(OrNone(request.POST), CommentFormValid(request.POST))
             IN  IF form.is_valid
                 THEN LET comment == [CommentFormSave(request.POST, NewComment)
                                          EXCEPT !.post = post_id,
                                                 !.author = request.user]
                      IN  Outcome(posts, post_seq,
                                  Insert(comments, comment_seq, comment),
                                  comment_seq + 1, usernames,
                                  redirect("blog:post_detail", post_id))
                 ELSE ReadOnly(redirect("blog:post_detail", post_id)))

add_comment(request, post_id) ==
    login_required(request,
        IF post_id \notin DOMAIN posts
        THEN ReadOnly(Http404)
        ELSE LET form == Form(OrNone(request.POST), CommentFormValid(request.POST))
             IN  IF form.is_valid
                 THEN LET comment == [CommentFormSave(request.POST, NewComment)
                                          EXCEPT !.post = post_id,
                                                 !.author = request.user]
                      IN  Outcome(posts, post_seq,
                                  Insert(comments, comment_seq, comment),
                                  comment_seq + 1, usernames,
                                  redirect("blog:post_detail", post_id))
                 ELSE ReadOnly(redirect("blog:post_detail", post_id)))

\* Mutant: the comment must belong to the post the URL names.
edit_comment_checks_post(request, post_id, comment_id) ==
    login_required(request,
        IF comment_id \notin DOMAIN comments
        THEN ReadOnly(Http404)
        ELSE IF comments[comment_id].post # post_id
        THEN ReadOnly(Http404)
        ELSE IF request.user # comments[comment_id].author
        THEN ReadOnly(redirect("blog:post_detail", post_id))
        ELSE LET form == Form(OrNone(request.POST), CommentFormValid(request.POST))
             IN  IF form.is_valid
                 THEN Outcome(posts, post_seq,
                              [comments EXCEPT ![comment_id] =
                                   CommentFormSave(request.POST, comments[comment_id])],
                              comment_seq, usernames,
                              redirect("blog:post_detail", post_id))
                 ELSE ReadOnly([render("blog/comment.html", {}, <<>>, form)
                                   EXCEPT !.arg_id = comment_id]))

edit_comment(request, post_id, comment_id) ==
    login_required(request,
        IF comment_id \notin DOMAIN comments
        THEN ReadOnly(Http404)
        ELSE IF request.user # comments[comment_id].author
        THEN ReadOnly(redirect("blog:post_detail", post_id))
        ELSE LET form == Form(OrNone(request.POST), CommentFormValid(request.POST))
             IN  IF form.is_valid
                 THEN Outcome(posts, post_seq,
                              [comments EXCEPT ![comment_id] =
                                   CommentFormSave(request.POST, comments[comment_id])],
                              comment_seq, usernames,
                              redirect("blog:post_detail", post_id))
                 ELSE ReadOnly([render("blog/comment.html", {}, <<>>, form)
                                   EXCEPT !.arg_id = comment_id]))

delete_comment(request, post_id, comment_id) ==
    login_required(request,
        IF comment_id \notin DOMAIN comments
        THEN ReadOnly(Http404)
        ELSE IF request.user # comments[comment_id].author
        THEN ReadOnly(redirect("blog:post_detail", post_id))
        ELSE IF request.method = "POST"
        THEN Outcome(posts, post_seq, Remove(comments, comment_id),
                     comment_seq, usernames,
                     redirect("blog:post_detail", post_id))
        ELSE ReadOnly([render("blog/comment.html", {}, <<>>, NoForm)
                          EXCEPT !.arg_id = comment_id]))

\* ---------------------------------------------------------------- actions
\* The worker takes a request, runs its view to completion and holds the
\* response; the tables' id sequences are capped by the bounds.
Serve(request, outcome) ==
    /\ req = NoRequest
    /\ outcome.post_seq <= MaxPosts + 1
    /\ outcome.comment_seq <= MaxComments + 1
    /\ posts' = outcome.posts
    /\ post_seq' = outcome.post_seq
    /\ comments' = outcome.comments
    /\ comment_seq' = outcome.comment_seq
    /\ usernames' = outcome.usernames
    /\ resp' = outcome.response
    /\ req' = request
    /\ before' = [posts |-> posts, comments |-> comments, usernames |-> usernames]
    /\ UNCHANGED now

ServeIndex ==
    \E u \in Requesters :
        LET r == Request("index", u, "GET", 0, 0, "", EmptyPOST)
        IN  Serve(r, index(r))

ServeCategoryPosts ==
    \E u \in Requesters, slug \in SlugArgs :
        LET r == Request("category_posts", u, "GET", 0, 0, slug, EmptyPOST)
        IN  Serve(r, category_posts(r, slug))

ServePostDetail ==
    \E u \in Requesters, id \in PostIdArgs :
        LET r == Request("post_detail", u, "GET", id, 0, "", EmptyPOST)
        IN  Serve(r, post_detail(r, id))

ServeCreatePost ==
    \E u \in Requesters, m \in {"GET", "POST"}, d \in PostSubmissions :
        LET r == Request("create_post", u, m, 0, 0, "", d)
        IN  Serve(r, create_post(r))

ServeEditPost ==
    \E u \in Requesters, id \in PostIdArgs, m \in {"GET", "POST"},
       d \in PostSubmissions :
        LET r == Request("edit_post", u, m, id, 0, "", d)
        IN  Serve(r, edit_post(r, id))

ServeDeletePost ==
    \E u \in Requesters, id \in PostIdArgs, m \in {"GET", "POST"} :
        LET r == Request("delete_post", u, m, id, 0, "", EmptyPOST)
        IN  Serve(r, delete_post(r, id))

ServeProfile ==
    \E u \in Requesters, name \in Usernames :
        LET r == Request("profile", u, "GET", 0, 0, name, EmptyPOST)
        IN  Serve(r, profile(r, name))

ServeEditProfile ==
    \E u \in Requesters, m \in {"GET", "POST"}, d \in ProfileSubmissions :
        LET r == Request("edit_profile", u, m, 0, 0, "", d)
        IN  Serve(r, edit_profile(r))

ServeAddComment ==
    \E u \in Requesters, id \in PostIdArgs, m \in {"GET", "POST"},
       d \in CommentSubmissions :
        LET r == Request("add_comment", u, m, id, 0, "", d)
        IN  Serve(r, add_comment(r, id))

ServeEditComment ==
    \E u \in Requesters, id \in PostIdArgs, cid \in CommentIdArgs,
       m \in {"GET", "POST"}, d \in CommentSubmissions :
        LET r == Request("edit_comment", u, m, id, cid, "", d)
        IN  Serve(r, edit_comment(r, id, cid))

ServeDeleteComment ==
    \E u \in Requesters, id \in PostIdArgs, cid \in CommentIdArgs,
       m \in {"GET", "POST"} :
        LET r == Request("delete_comment", u, m, id, cid, "", EmptyPOST)
        IN  Serve(r, delete_comment(r, id, cid))

\* The response is sent and the worker is free for the next request.
Respond ==
    /\ req # NoRequest
    /\ req' = NoRequest
    /\ resp' = NoResponse
    /\ before' = NoStore
    /\ UNCHANGED <<posts, post_seq, comments, comment_seq, usernames, now>>

\* Time passes between requests.
Tick ==
    /\ req = NoRequest
    /\ now < MaxTime
    /\ now' = now + 1
    /\ UNCHANGED <<posts, post_seq, comments, comment_seq, usernames, req, resp, before>>

Next ==
    \/ ServeIndex
    \/ ServeCategoryPosts
    \/ ServePostDetail
    \/ ServeCreatePost
    \/ ServeEditPost
    \/ ServeDeletePost
    \/ ServeProfile
    \/ ServeEditProfile
    \/ ServeAddComment
    \/ ServeEditComment
    \/ ServeDeleteComment
    \/ Respond
    \/ Tick

Spec == Init /\ [][Next]_vars

\* ---------------------------------------------------------------- claims
Responded == req # NoRequest

Authenticated == req.user \in Users

StoreUnchanged ==
    /\ posts = before.posts
    /\ comments = before.comments
    /\ usernames = before.usernames

\* The posts and comments the request changed or removed.
PostsTouched ==
    { p \in DOMAIN before.posts : p \notin DOMAIN posts \/ posts[p] # before.posts[p] }

CommentsTouched ==
    { c \in DOMAIN before.comments :
        c \notin DOMAIN comments \/ comments[c] # before.comments[c] }

RendersPost(response, id, post) ==
    /\ response.status = "render"
    /\ response.post_list = { [id |-> id, post |-> post] }

\* A post is hidden when it is unpublished, its category is unpublished or
\* it is dated in the future.
Hidden(post) ==
    \/ ~post.is_published
    \/ ~Categories[post.category]
    \/ post.pub_date > now

NonAuthorOfPost ==
    /\ req.view \in {"edit_post", "delete_post"}
    /\ Authenticated
    /\ req.post_id \in DOMAIN before.posts
    /\ before.posts[req.post_id].author # req.user

NonAuthorOfComment ==
    /\ req.view \in {"edit_comment", "delete_comment"}
    /\ Authenticated
    /\ req.comment_id \in DOMAIN before.comments
    /\ before.comments[req.comment_id].author # req.user

NonAuthorRefused ==
    (NonAuthorOfPost \/ NonAuthorOfComment) =>
        /\ StoreUnchanged
        /\ resp = redirect("blog:post_detail", req.post_id)

\* The comments a post's author removes together with the post.
RemovedWithPost(c) ==
    /\ req.view = "delete_post"
    /\ req.method = "POST"
    /\ req.post_id \in DOMAIN before.posts
    /\ req.post_id \notin DOMAIN posts
    /\ before.comments[c].post = req.post_id
    /\ req.user = before.posts[req.post_id].author
    /\ c \notin DOMAIN comments

\* C1 as stated: every post or comment a request changed or removed has the
\* requesting user as its author, and a non-author's edit_post, delete_post,
\* edit_comment or delete_comment leaves the store unchanged and redirects to
\* the post detail page.
C1_EveryChangeByTheAuthor ==
    Responded =>
        /\ \A p \in PostsTouched : req.user = before.posts[p].author
        /\ \A c \in CommentsTouched : req.user = before.comments[c].author
        /\ NonAuthorRefused

\* C1 amended: as C1, except that a comment is also removed, whoever wrote
\* it, when the author of its post deletes that post.
C1_ChangeByAuthorOrWithPost ==
    Responded =>
        /\ \A p \in PostsTouched : req.user = before.posts[p].author
        /\ \A c \in CommentsTouched :
              req.user = before.comments[c].author \/ RemovedWithPost(c)
        /\ NonAuthorRefused

C1_Witness ==
    /\ NonAuthorOfPost
    /\ req.view = "edit_post"
    /\ req.method = "POST"
    /\ PostFormValid(req.POST)
    /\ resp = redirect("blog:post_detail", req.post_id)
    /\ \E c \in DOMAIN comments : comments[c].author # req.user

\* C2: post_detail of an existing hidden post is not-found for everyone but
\* its author, anonymous included, and renders the post for its author; a
\* visible post is rendered for every requester.
C2_HiddenPostOnlyForAuthor ==
    (req.view = "post_detail" /\ req.post_id \in DOMAIN posts) =>
        LET P == posts[req.post_id]
        IN  /\ (Hidden(P) /\ req.user # P.author) => resp = Http404
            /\ (Hidden(P) /\ req.user = P.author) => RendersPost(resp, req.post_id, P)
            /\ ~Hidden(P) => RendersPost(resp, req.post_id, P)

C2_Witness ==
    /\ req.view = "post_detail"
    /\ req.post_id \in DOMAIN posts
    /\ Hidden(posts[req.post_id])
    /\ req.user = AnonymousUser
    /\ resp = Http404
    /\ \E q \in DOMAIN posts : ~Hidden(posts[q])

\* The one post a request added.
AddedPosts == DOMAIN posts \ DOMAIN before.posts

OldPostsKept == \A p \in DOMAIN before.posts : p \in DOMAIN posts /\ posts[p] = before.posts[p]

\* C3: create_post by an authenticated user U with valid data adds exactly
\* one post, authored by U whatever the submission says, and redirects to
\* U's profile; otherwise no post is added and the form is shown again.
C3_CreateSetsAuthor ==
    (req.view = "create_post" /\ Authenticated) =>
        IF PostFormValid(req.POST)
        THEN /\ Cardinality(AddedPosts) = 1
             /\ OldPostsKept
             /\ \A p \in AddedPosts : posts[p].author = req.user
             /\ resp = redirect_profile(usernames[req.user])
        ELSE /\ posts = before.posts
             /\ resp.status = "render"
             /\ resp.template = "blog/create.html"

C3_Witness ==
    /\ req.view = "create_post"
    /\ Authenticated
    /\ req.POST.author \in Users \ {req.user}
    /\ \E p \in AddedPosts : posts[p].author = req.user
    /\ resp.status = "redirect"

AddedComments == DOMAIN comments \ DOMAIN before.comments

OldCommentsKept ==
    \A c \in DOMAIN before.comments :
        c \in DOMAIN comments /\ comments[c] = before.comments[c]

\* C4: add_comment by an authenticated user on an existing post always
\* redirects to that post's detail page; invalid data leave the comments
\* unchanged, valid data add exactly one comment, on that post and by that
\* user; on a missing post it is not-found and adds nothing.
C4_AddCommentAlwaysRedirects ==
    (req.view = "add_comment" /\ Authenticated) =>
        IF req.post_id \in DOMAIN before.posts
        THEN /\ resp = redirect("blog:post_detail", req.post_id)
             /\ OldCommentsKept
             /\ IF CommentFormValid(req.POST)
                THEN /\ Cardinality(AddedComments) = 1
                     /\ \A c \in AddedComments :
                           /\ comments[c].post = req.post_id
                           /\ comments[c].author = req.user
                ELSE comments = before.comments
        ELSE /\ resp = Http404
             /\ comments = before.comments

C4_Witness ==
    /\ req.view = "add_comment"
    /\ Authenticated
    /\ req.method = "POST"
    /\ req.post_id \in DOMAIN before.posts
    /\ ~CommentFormValid(req.POST)
    /\ comments = before.comments
    /\ resp.status = "redirect"

\* The ids of the posts that were deleted: handed out by the sequence and no
\* longer in the table.
DeletedPostIds == { p \in 1..(post_seq - 1) : p \notin DOMAIN posts }

\* C5: delete_post removes nothing unless the request is a POST, and shows
\* the author a confirmation form; the author's POST removes the post and
\* redirects to the index; from then on post_detail (any requester) and
\* edit_post, delete_post and add_comment (any authenticated user) for that
\* id are not-found.
C5_DeleteIsTwoStep ==
    /\ (req.view = "delete_post" /\ req.method # "POST") =>
           /\ posts = before.posts
           /\ (Authenticated /\ req.post_id \in DOMAIN before.posts
                 /\ before.posts[req.post_id].author = req.user) =>
                  /\ resp.status = "render"
                  /\ resp.post_list =
                        { [id |-> req.post_id, post |-> posts[req.post_id]] }
    /\ (req.view = "delete_post" /\ req.method = "POST" /\ Authenticated
          /\ req.post_id \in DOMAIN before.posts
          /\ before.posts[req.post_id].author = req.user) =>
           /\ req.post_id \notin DOMAIN posts
           /\ \A p \in DOMAIN before.posts \ {req.post_id} :
                 p \in DOMAIN posts /\ posts[p] = before.posts[p]
           /\ resp = redirect("blog:index", 0)
    /\ (req.post_id \in DeletedPostIds /\ req.post_id \notin DOMAIN before.posts) =>
           /\ req.view = "post_detail" => resp = Http404
           /\ (req.view \in {"edit_post", "delete_post", "add_comment"}
                 /\ Authenticated) => resp = Http404 /\ StoreUnchanged

C5_Witness ==
    /\ req.view = "add_comment"
    /\ Authenticated
    /\ req.method = "POST"
    /\ CommentFormValid(req.POST)
    /\ req.post_id \in DeletedPostIds
    /\ req.post_id \notin DOMAIN before.posts
    /\ resp = Http404

\* C6: the profile of an existing username lists exactly the named user's
\* posts, all of them for the user themself and only the visible ones for
\* anyone else; an unknown username is not-found.
C6_ProfileListing ==
    req.view = "profile" =>
        IF \E u \in Users : usernames[u] = req.name
        THEN \A u \in Users : usernames[u] = req.name =>
                /\ resp.status = "render"
                /\ resp.post_list =
                      { [id |-> i, post |-> posts[i]] :
                          i \in { j \in DOMAIN posts :
                                    /\ posts[j].author = u
                                    /\ (req.user # u => ~Hidden(posts[j])) } }
        ELSE resp = Http404

C6_Witness ==
    /\ req.view = "profile"
    /\ \E u \in Users :
          /\ usernames[u] = req.name
          /\ req.user = u
          /\ \E i \in DOMAIN posts : posts[i].author = u /\ Hidden(posts[i])
          /\ \E i \in DOMAIN posts : posts[i].author # u
          /\ \A i \in DOMAIN posts :
                posts[i].author = u => [id |-> i, post |-> posts[i]] \in resp.post_list

\* The submitted fields of the post form as the rendered post shows them.
RendersSubmitted(response, id, data) ==
    /\ response.status = "render"
    /\ \E e \in response.post_list :
          /\ e.id = id
          /\ e.post.text = data.text
          /\ e.post.category = data.category
          /\ e.post.is_published = data.is_published
          /\ e.post.pub_date = data.pub_date

HiddenData(data) ==
    \/ ~data.is_published
    \/ ~Categories[data.category]
    \/ data.pub_date > now

DetailRequest(u, id) == Request("post_detail", u, "GET", id, 0, "", EmptyPOST)

CreateSucceeded ==
    /\ req.view = "create_post"
    /\ Authenticated
    /\ PostFormValid(req.POST)
    /\ AddedPosts # {}

\* C7 as stated: once create_post has succeeded, post_detail of the new id
\* returns the post with the submitted content to every requester, whatever
\* the valid data were.
C7_RoundTripForEveryRequester ==
    CreateSucceeded =>
        \A p \in AddedPosts, u \in Requesters :
            RendersSubmitted(post_detail(DetailRequest(u, p), p).response, p, req.POST)

\* C7 amended: once create_post has succeeded, post_detail of the new id
\* returns the post with the submitted content to its author, and to any
\* other requester when the submitted data make the post visible; when they
\* make it hidden any other requester gets not-found.
C7_RoundTripForAuthorOrVisible ==
    CreateSucceeded =>
        \A p \in AddedPosts, u \in Requesters :
            LET response == post_detail(DetailRequest(u, p), p).response
            IN  IF u = req.user \/ ~HiddenData(req.POST)
                THEN RendersSubmitted(response, p, req.POST)
                ELSE response = Http404

C7_Witness ==
    /\ CreateSucceeded
    /\ HiddenData(req.POST)
    /\ \E p \in AddedPosts :
          /\ RendersSubmitted(post_detail(DetailRequest(req.user, p), p).response,
                              p, req.POST)
          /\ \E u \in Users \ {req.user} :
                post_detail(DetailRequest(u, p), p).response = Http404

\* C8: edit_profile binds the submission unconditionally: an authenticated
\* GET is validated as a bound empty form, fails, leaves the profile alone
\* and shows the form with its errors; only a valid submission changes the
\* profile, only the requesting user's, and it redirects to that user's
\* profile page.
C8_EditProfileBindsUnconditionally ==
    (req.view = "edit_profile" /\ Authenticated) =>
        /\ req.method = "GET" =>
              /\ resp.status = "render"
              /\ resp.template = "blog/user.html"
              /\ resp.form.is_bound
              /\ ~resp.form.is_valid
              /\ usernames = before.usernames
        /\ \A u \in Users \ {req.user} : usernames[u] = before.usernames[u]
        /\ posts = before.posts
        /\ comments = before.comments
        /\ IF /\ req.POST.username \in Usernames
              /\ \A u \in Users \ {req.user} : before.usernames[u] # req.POST.username
           THEN /\ usernames[req.user] = req.POST.username
                /\ resp = redirect_profile(usernames[req.user])
           ELSE /\ usernames = before.usernames
                /\ resp.status = "render"
                /\ resp.form.is_bound

C8_Witness ==
    /\ req.view = "edit_profile"
    /\ Authenticated
    /\ req.method = "GET"
    /\ resp.form.is_bound
    /\ ~resp.form.is_valid
    /\ usernames[req.user] # InitialUsername[req.user]

CommentRequest(view, u, m, post_id, comment_id, d) ==
    Request(view, u, m, post_id, comment_id, "", d)

SameStore(o1, o2) ==
    /\ o1.posts = o2.posts
    /\ o1.comments = o2.comments
    /\ o1.usernames = o2.usernames
    /\ o1.post_seq = o2.post_seq
    /\ o1.comment_seq = o2.comment_seq

\* Two outcomes that differ at most in the post id a redirect carries.
SameButRedirectTarget(o1, q1, o2, q2) ==
    /\ SameStore(o1, o2)
    /\ o1.response.status = o2.response.status
    /\ o1.response.status = "redirect" =>
          /\ o1.response = redirect("blog:post_detail", q1)
          /\ o2.response = redirect("blog:post_detail", q2)

\* C9: edit_comment and delete_comment find the comment by comment_id alone:
\* whatever post_id is supplied (another post's, or no post's) the store ends
\* up the same, only the comment's author changes or removes it, and every
\* redirect goes to the detail page of the supplied post_id.
C9_PostIdNeverChecked ==
    /\ req = NoRequest =>
          \A u \in Users, cid \in CommentIdArgs, m \in {"GET", "POST"},
             d \in CommentSubmissions, q1 \in PostIdArgs, q2 \in 1..(MaxPosts + 1) :
              /\ SameButRedirectTarget(
                     edit_comment(CommentRequest("edit_comment", u, m, q1, cid, d),
                                  q1, cid), q1,
                     edit_comment(CommentRequest("edit_comment", u, m, q2, cid, d),
                                  q2, cid), q2)
              /\ SameButRedirectTarget(
                     delete_comment(CommentRequest("delete_comment", u, m, q1, cid, d),
                                    q1, cid), q1,
                     delete_comment(CommentRequest("delete_comment", u, m, q2, cid, d),
                                    q2, cid), q2)
    /\ (req.view \in {"edit_comment", "delete_comment"} /\ Authenticated
          /\ req.comment_id \in DOMAIN before.comments) =>
          LET comment == before.comments[req.comment_id]
          IN  /\ resp.status = "redirect" =>
                    resp = redirect("blog:post_detail", req.post_id)
              /\ req.user # comment.author => comments = before.comments
              /\ (req.user = comment.author /\ req.view = "edit_comment"
                    /\ CommentFormValid(req.POST)) =>
                    /\ comments = [before.comments EXCEPT
                                      ![req.comment_id].text = req.POST.text]
                    /\ resp.status = "redirect"
              /\ (req.user = comment.author /\ req.view = "delete_comment"
                    /\ req.method = "POST") =>
                    /\ req.comment_id \notin DOMAIN comments
                    /\ resp.status = "redirect"

C9_Witness ==
    /\ req.view = "edit_comment"
    /\ req.comment_id \in DOMAIN before.comments
    /\ req.comment_id \in DOMAIN comments
    /\ before.comments[req.comment_id].post # req.post_id
    /\ req.post_id \notin DOMAIN posts
    /\ comments[req.comment_id].text # before.comments[req.comment_id].text
    /\ resp = redirect("blog:post_detail", req.post_id)

\* The posts a user's valid add_comment adds a comment to, and the posts the
\* same user's post_detail renders.
Commentable(u) ==
    { p \in PostIdArgs :
        \E d \in CommentSubmissions :
            LET o == add_comment(Request("add_comment", u, "POST", p, 0, "", d), p)
            IN  /\ o.comment_seq = comment_seq + 1
                /\ o.comments[comment_seq].post = p
                /\ o.comments[comment_seq].author = u }

Viewable(u) ==
    { p \in PostIdArgs : post_detail(DetailRequest(u, p), p).response.status = "render" }

\* C10: add_comment applies no visibility filter: an authenticated user's
\* valid submission adds a comment to any existing post, so the posts a user
\* can comment on are all the existing posts, among them the posts whose
\* detail page is not-found for that user.
C10_CommentWithoutVisibilityFilter ==
    /\ req = NoRequest =>
          \A u \in Users :
              /\ Commentable(u) = DOMAIN posts
              /\ Viewable(u) \subseteq Commentable(u)
    /\ (req.view = "add_comment" /\ Authenticated /\ CommentFormValid(req.POST)
          /\ req.post_id \in DOMAIN before.posts) =>
          \E c \in AddedComments :
              /\ comments[c].post = req.post_id
              /\ comments[c].author = req.user

C10_Witness ==
    /\ req.view = "add_comment"
    /\ Authenticated
    /\ req.post_id \in DOMAIN posts
    /\ posts[req.post_id].author # req.user
    /\ Hidden(posts[req.post_id])
    /\ post_detail(DetailRequest(req.user, req.post_id), req.post_id).response = Http404
    /\ \E c \in AddedComments :
          comments[c].post = req.post_id /\ comments[c].author = req.user

====
